---------------------------- MODULE Spec2Model ----------------------------
(***************************************************************************)
(* A model of s3-downloader.js: the paginated listings (listFolders,       *)
(* listAllFiles), the existence-check-then-download of one object          *)
(* (downloadFile) and the sequential run that plans and tallies them       *)
(* (downloadFromS3), against a remote store whose listing answers are      *)
(* fixed for the whole behaviour and a local filesystem that only the      *)
(* program changes.                                                        *)
(*                                                                         *)
(* A string is a sequence of tokens.  The token "/" is the path delimiter, *)
(* the token "." is a dot, and every other token ("folder1", "config.json",*)
(* ...) stands for a name, taken as one letter that is neither of them.    *)
(***************************************************************************)
EXTENDS Integers, Sequences, FiniteSets, TLC

(***************************************************************************)
(* Bounds of the model.                                                    *)
(***************************************************************************)
\* Pages in one listing answer of the pagination specification.
MaxPages == 2
\* Items on one page of a listing answer of the pagination specification.
MaxPageLen == 2
\* Items the store returns on one page during a run (the provider's page size).
PageSize == 1
\* What the environment may spend in one behaviour: each item (common prefix
\* or key) that a listing of the store holds costs one, and so does each
\* request or write that fails.
MaxEvents == 3

(***************************************************************************)
(* Configuration (s3-downloader.js, lines 8-27).                           *)
(***************************************************************************)
S3_BASE_PREFIX == <<"gis-data", "/", "folder", "/">>

DOWNLOAD_DIR == <<".", "/", "downloads">>

MAIN_FOLDERS == << <<"folder1">>, <<"folder2">>, <<"folder3">> >>

FOLDERS_TO_DOWNLOAD == << <<"videos", "/">>, <<"photos", "/">> >>

JSON_FILES_TO_DOWNLOAD == << <<"config.json">>, <<"metadata.json">> >>

(***************************************************************************)
(* Strings.                                                                *)
(***************************************************************************)
\* F applied to the value of v: v is computed once, however often F refers
\* to it.
With(v, F(_)) == CHOOSE r \in {F(x) : x \in {v}} : TRUE

\* key.endsWith('/')
EndsWithSlash(s) == Len(s) > 0 /\ s[Len(s)] = "/"

\* s.indexOf(p), 1-based; 0 when p does not occur in s.
IndexOf(s, p) ==
    LET hits == {i \in 1..(Len(s) - Len(p) + 1) : SubSeq(s, i, i + Len(p) - 1) = p}
    IN  IF hits = {} THEN 0 ELSE CHOOSE i \in hits : \A j \in hits : i <= j

\* s.replace(p, r) with a string pattern: the first occurrence only.
Replace(s, p, r) ==
    With(IndexOf(s, p), LAMBDA i :
        IF i = 0 THEN s
        ELSE SubSeq(s, 1, i - 1) \o r \o SubSeq(s, i + Len(p), Len(s)))

\* The segments of s between delimiters: s.split('/').
RECURSIVE Split(_)
Split(s) ==
    With(s, LAMBDA t :
        With(IndexOf(t, <<"/">>), LAMBDA i :
            IF i = 0 THEN <<t>>
            ELSE <<SubSeq(t, 1, i - 1)>> \o Split(SubSeq(t, i + 1, Len(t)))))

\* segs.join('/')
RECURSIVE JoinSegs(_)
JoinSegs(segs) ==
    With(segs, LAMBDA t :
        IF Len(t) = 0 THEN <<>>
        ELSE IF Len(t) = 1 THEN t[1]
        ELSE t[1] \o <<"/">> \o JoinSegs(Tail(t)))

(***************************************************************************)
(* Node's posix path module.                                               *)
(***************************************************************************)
DotSeg == <<".">>
DotDotSeg == <<".", ".">>

\* normalizeString: empty and "." segments are dropped; ".." removes the
\* segment before it, or is kept when there is none to remove and the path
\* is relative (allowAboveRoot).
RECURSIVE NormalizeSegs(_, _, _)
NormalizeSegs(segs, res, allowAboveRoot) ==
    With(<<segs, res>>, LAMBDA t :
        IF Len(t[1]) = 0 THEN t[2]
        ELSE LET seg == t[1][1]
                 rest == Tail(t[1])
                 kept == t[2]
             IN  IF seg = <<>> \/ seg = DotSeg
                     THEN NormalizeSegs(rest, kept, allowAboveRoot)
                 ELSE IF seg = DotDotSeg
                     THEN IF Len(kept) > 0 /\ kept[Len(kept)] # DotDotSeg
                              THEN NormalizeSegs(rest, SubSeq(kept, 1, Len(kept) - 1),
                                                 allowAboveRoot)
                          ELSE IF allowAboveRoot
                              THEN NormalizeSegs(rest, Append(kept, seg),
                                                 allowAboveRoot)
                          ELSE NormalizeSegs(rest, kept, allowAboveRoot)
                 ELSE NormalizeSegs(rest, Append(kept, seg), allowAboveRoot))

\* path.normalize(p)
Normalize(p) ==
    IF Len(p) = 0 THEN DotSeg
    ELSE LET isAbsolute == p[1] = "/"
             trailingSeparator == p[Len(p)] = "/"
         IN  With(JoinSegs(NormalizeSegs(Split(p), <<>>, ~isAbsolute)),
                  LAMBDA body :
                      IF Len(body) = 0
                          THEN IF isAbsolute THEN <<"/">>
                               ELSE IF trailingSeparator THEN <<".", "/">>
                               ELSE DotSeg
                      ELSE (IF isAbsolute THEN <<"/">> ELSE <<>>) \o body
                           \o (IF trailingSeparator THEN <<"/">> ELSE <<>>))

\* path.join(a, b): the non-empty arguments joined by "/" and normalized.
PathJoin(a, b) ==
    IF Len(a) = 0 /\ Len(b) = 0 THEN DotSeg
    ELSE IF Len(a) = 0 THEN Normalize(b)
    ELSE IF Len(b) = 0 THEN Normalize(a)
    ELSE Normalize(a \o <<"/">> \o b)

\* The index of the last "/" of p; 0 when there is none.
LastSlash(p) ==
    LET hits == {i \in 1..Len(p) : p[i] = "/"}
    IN  IF hits = {} THEN 0 ELSE CHOOSE i \in hits : \A j \in hits : j <= i

\* path.dirname(p) of a normalized path that does not end in "/".
Dirname(p) ==
    With(LastSlash(p), LAMBDA i :
        IF i = 0 THEN DotSeg
        ELSE IF i = 1 THEN <<"/">>
        ELSE SubSeq(p, 1, i - 1))

\* The local path of a remote key (lines 169-170 and 206-207).
LocalPath(fileKey) ==
    With(Replace(fileKey, S3_BASE_PREFIX, <<>>), LAMBDA relativePath :
        PathJoin(DOWNLOAD_DIR, relativePath))

(***************************************************************************)
(* State.                                                                  *)
(***************************************************************************)
VARIABLES
    pc,                 \* the await or loop head the run stands at
    second,             \* TRUE in the re-run of the script over the same local root
    store,              \* the remote store: listed prefix -> the pages it answers with
    fs,                 \* the local filesystem: existing path -> its entry
    mainIdx,            \* position in MAIN_FOLDERS (line 133)
    prefix,             \* the prefix of the listing call in progress
    continuationToken,  \* 0 is null; n > 0 is the token that asks for page n
    folders,            \* listFolders' folders, in insertion order (line 33)
    files,              \* listAllFiles' files (line 62)
    requested,          \* list requests sent by the listing call in progress
    subFolders,         \* line 142
    subIdx,             \* position in subFolders (line 157)
    jsonIdx,            \* position in JSON_FILES_TO_DOWNLOAD (line 167)
    targetIdx,          \* position in FOLDERS_TO_DOWNLOAD (line 185)
    actualFiles,        \* line 193
    fileIdx,            \* the files loop's i (line 203)
    key,                \* downloadFile's key
    localPath,          \* downloadFile's localPath
    caller,             \* the loop that called downloadFile: "json" or "files"
    totalDownloaded, totalFailed, totalFolders, totalRecordFolders, totalSkipped,
    calls,              \* history: the downloadFile calls of this run, in order
    listRequests,       \* history: list requests sent in this run
    getRequests,        \* history: GetObject requests sent in this run
    fsAtCall,           \* history: fs when the latest downloadFile call began
    faults,             \* history: requests and writes that failed so far
    listFailed,         \* history: a list request of this run was rejected
    first               \* history: how the first run ended, once it has

listVars == <<prefix, continuationToken, folders, files, requested>>
loopVars == <<mainIdx, subFolders, subIdx, jsonIdx, targetIdx, actualFiles, fileIdx>>
callVars == <<key, localPath, caller>>
counters == <<totalDownloaded, totalFailed, totalFolders, totalRecordFolders,
              totalSkipped>>
history  == <<calls, listRequests, getRequests, fsAtCall, faults, listFailed,
              first>>
vars == <<pc, second, store, fs, listVars, loopVars, callVars, counters, history>>

Null == 0

(***************************************************************************)
(* The local filesystem.                                                   *)
(***************************************************************************)
DirEntry == [kind |-> "dir", key |-> <<>>, complete |-> TRUE]

FileEntry(k, c) == [kind |-> "file", key |-> k, complete |-> c]

\* fs.statSync(p).isDirectory(), false when nothing is at p.
IsDir(p) == p = DotSeg \/ (p \in DOMAIN fs /\ fs[p].kind = "dir")

\* A variant of existsSync that sees directories only.
ExistsSyncOfDirectory(p) == IsDir(p)

\* fs.existsSync(p): the working directory always exists.
ExistsSync(p) == p = DotSeg \/ p \in DOMAIN fs

\* p and the directories above it, up to the working directory.
RECURSIVE Chain(_)
Chain(p) ==
    With(p, LAMBDA q :
        IF q = DotSeg \/ q = <<"/">> THEN {} ELSE {q} \cup Chain(Dirname(q)))

\* fs.mkdirSync(dir, {recursive: true}) throws when a file stands in the way.
MkdirThrows(dir) == \E a \in Chain(dir) : a \in DOMAIN fs /\ fs[a].kind = "file"

\* The filesystem after fs.mkdirSync(dir, {recursive: true}).
Mkdir(f, dir) ==
    [p \in DOMAIN f \cup Chain(dir) |-> IF p \in DOMAIN f THEN f[p] ELSE DirEntry]

\* Opening the write stream of fs.createWriteStream(p) fails when p's
\* directory is not a directory or p is one.
OpenThrows(p) == ~IsDir(Dirname(p)) \/ IsDir(p)

\* A variant of the write that opens the stream at the key, not at p.
WriteFileAtKey(f, p, k, c) ==
    [q \in DOMAIN f \cup {k} |-> IF q = k THEN FileEntry(k, c) ELSE f[q]]

\* The filesystem once the write stream of p is open and has written what
\* it got of object k: the file is created, or truncated and rewritten.
WriteFile(f, p, k, c) ==
    [q \in DOMAIN f \cup {p} |-> IF q = p THEN FileEntry(k, c) ELSE f[q]]

(***************************************************************************)
(* The remote store.                                                       *)
(***************************************************************************)
\* The names of the record folders that may lie under a main folder, and
\* what may lie under a listed folder: the folder marker of the prefix
\* itself, a key with an empty segment before a name, the key of that
\* name, and a key below that key.  Both are in the store's (UTF-8 binary)
\* order.
RecordNames == <<"rec-1", "rec-2">>

Suffixes == << <<>>, <<"/", "a.jpg">>, <<"a.jpg">>, <<"a.jpg", "/", "b">> >>

FolderItems(p) == [n \in 1..Len(RecordNames) |-> p \o <<RecordNames[n], "/">>]

FileItems(p) == [n \in 1..Len(Suffixes) |-> p \o Suffixes[n]]

\* The sequences of at most n elements of S.
SeqsUpTo(S, n) == UNION {[1..m -> S] : m \in 0..n}

\* The results of at most n of the items, in the store's order; the store
\* is not trusted to return an item once only.
Results(items, n) ==
    {[j \in 1..Len(f) |-> items[f[j]]] :
        f \in {g \in SeqsUpTo(1..Len(items), n) :
                 \A j \in 1..(Len(g) - 1) : g[j] <= g[j + 1]}}

\* A flat result cut into the provider's pages; an empty result is one empty page.
RECURSIVE Chop(_, _)
Chop(flat, size) ==
    IF Len(flat) <= size THEN <<flat>>
    ELSE <<SubSeq(flat, 1, size)>> \o Chop(SubSeq(flat, size + 1, Len(flat)), size)

RECURSIVE Concat(_)
Concat(pages) == IF Len(pages) = 0 THEN <<>> ELSE pages[1] \o Concat(Tail(pages))

RECURSIVE StoreItems(_)
StoreItems(st) ==
    IF DOMAIN st = {} THEN 0
    ELSE LET p == CHOOSE q \in DOMAIN st : TRUE
         IN  Len(Concat(st[p])) + StoreItems([q \in DOMAIN st \ {p} |-> st[q]])

\* What the environment has left to spend.
Budget == MaxEvents - StoreItems(store) - faults

\* The answers a run may get to the first listing of a prefix.
RunAnswers(items) == {Chop(flat, PageSize) : flat \in Results(items, Budget)}

\* The store answers the listing of p as it did before, or fixes its answer now.
Answer(p, items) ==
    IF p \in DOMAIN store THEN store' = store
    ELSE \E pages \in RunAnswers(items) :
             store' = [q \in DOMAIN store \cup {p} |->
                          IF q = p THEN pages ELSE store[q]]

\* The response to a list request for prefix p with continuation token t.
Response(p, t) ==
    LET n == IF t = Null THEN 1 ELSE t
    IN  [Items |-> store[p][n],
         IsTruncated |-> n < Len(store[p]),
         NextContinuationToken |-> n + 1]

(***************************************************************************)
(* listFolders and listAllFiles (lines 32-82).                             *)
(***************************************************************************)
\* A variant of the collection of line 34 that is an array: folders.push.
AddAllPush(set, items) == set \o items

\* folders.add(item.Prefix) for each item of a page, in order (lines 47-49).
RECURSIVE AddAll(_, _)
AddAll(set, items) ==
    IF Len(items) = 0 THEN set
    ELSE AddAll(IF \E n \in 1..Len(set) : set[n] = items[1]
                    THEN set ELSE Append(set, items[1]),
                Tail(items))

\* files.push(...response.Contents.map(item => item.Key)) (line 75)
PushAll(list, items) == list \o items

\* A variant of lines 52 and 78 that never asks for a further page.
NextTokenNull(response) == Null

\* Lines 52 and 78.
NextToken(response) ==
    IF response.IsTruncated THEN response.NextContinuationToken ELSE Null

\* A failure that the environment may or may not produce.
Fault == Budget > 0 /\ faults' = faults + 1

\* A variant of the listings that catches the rejection and returns what
\* the pages before it gave.
ListSwallows ==
    /\ Fault
    /\ listFailed' = TRUE
    /\ listRequests' = listRequests + 1
    /\ requested' = requested + 1
    /\ IF pc = "listFolders"
           THEN pc' = "afterListFolders" /\ subFolders' = folders
           ELSE pc' = "afterListAllFiles" /\ UNCHANGED subFolders
    /\ UNCHANGED <<second, store, fs, prefix, continuationToken, folders, files,
                   mainIdx, subIdx, jsonIdx, targetIdx, actualFiles, fileIdx,
                   callVars, counters, calls, getRequests, fsAtCall, first>>

\* s3Client.send(command) rejects: nothing catches it before line 244.
ListThrows ==
    /\ Fault
    /\ listFailed' = TRUE
    /\ pc' = "crashed"
    /\ listRequests' = listRequests + 1
    /\ requested' = requested + 1
    /\ UNCHANGED <<second, store, fs, prefix, continuationToken, folders, files,
                   loopVars, callVars, counters, calls, getRequests, fsAtCall,
                   first>>

\* One pass of the do-while of listFolders (lines 36-53) and, after the
\* last page, the return of line 55 into subFolders (line 142).
ListFoldersPage ==
    /\ pc = "listFolders"
    /\ \/ ListThrows
       \/ LET response == Response(prefix, continuationToken)
              token == NextToken(response)
          IN  /\ folders' = AddAll(folders, response.Items)
              /\ continuationToken' = token
              /\ listRequests' = listRequests + 1
              /\ requested' = requested + 1
              /\ IF token # Null
                     THEN pc' = pc /\ UNCHANGED subFolders
                     ELSE pc' = "afterListFolders" /\ subFolders' = folders'
              /\ UNCHANGED <<second, store, fs, prefix, files, mainIdx, subIdx,
                             jsonIdx, targetIdx, actualFiles, fileIdx, callVars,
                             counters, calls, getRequests, fsAtCall, faults, listFailed, first>>

\* One pass of the do-while of listAllFiles (lines 65-79); after the last
\* page the function returns files (line 81).
ListAllFilesPage ==
    /\ pc = "listAllFiles"
    /\ \/ ListThrows
       \/ LET response == Response(prefix, continuationToken)
              token == NextToken(response)
          IN  /\ files' = PushAll(files, response.Items)
              /\ continuationToken' = token
              /\ listRequests' = listRequests + 1
              /\ requested' = requested + 1
              /\ pc' = IF token # Null THEN pc ELSE "afterListAllFiles"
              /\ UNCHANGED <<second, store, fs, prefix, folders, loopVars,
                             callVars, counters, calls, getRequests, fsAtCall,
                             faults, listFailed, first>>

(***************************************************************************)
(* downloadFile (lines 87-116) and the tally of its result.                *)
(***************************************************************************)
\* A variant of the tally that tests the result for truth, which 'skipped'
\* has, before it tests it for 'skipped'.
TallyTruthy(success) ==
    /\ totalDownloaded' = totalDownloaded + (IF success # "false" THEN 1 ELSE 0)
    /\ totalSkipped' = totalSkipped
    /\ totalFailed' = totalFailed + (IF success = "false" THEN 1 ELSE 0)

\* Lines 175-181 and 212-218.
Tally(success) ==
    /\ totalDownloaded' = totalDownloaded + (IF success = "true" THEN 1 ELSE 0)
    /\ totalSkipped' = totalSkipped + (IF success = "skipped" THEN 1 ELSE 0)
    /\ totalFailed' =
           totalFailed + (IF success \notin {"true", "skipped"} THEN 1 ELSE 0)

\* downloadFile returns success to the loop that called it, which tallies
\* it and moves on to its next entry.
Return(success) ==
    /\ Tally(success)
    /\ calls' = [calls EXCEPT ![Len(calls)].outcome = success]
    /\ IF caller = "json"
           THEN pc' = "json" /\ jsonIdx' = jsonIdx + 1 /\ UNCHANGED fileIdx
           ELSE pc' = "files" /\ fileIdx' = fileIdx + 1 /\ UNCHANGED jsonIdx
    /\ UNCHANGED <<second, store, listVars, mainIdx, subFolders, subIdx,
                   targetIdx, actualFiles, callVars, totalFolders,
                   totalRecordFolders, listRequests, listFailed, first>>

\* A variant of downloadFile without the existence check of lines 90-93.
DownloadFileUnchecked ==
    /\ pc = "downloadFile"
    /\ fsAtCall' = fs
    /\ calls' = Append(calls, [key |-> key, localPath |-> localPath,
                               got |-> TRUE, outcome |-> "pending"])
    /\ getRequests' = getRequests + 1
    /\ pc' = "getObject"
    /\ UNCHANGED <<second, store, fs, listVars, loopVars, callVars, counters,
                   listRequests, faults, listFailed, first>>

\* Lines 88-100: the existence check, then the GetObject request.
DownloadFile ==
    /\ pc = "downloadFile"
    /\ fsAtCall' = fs
    /\ IF ExistsSync(localPath)
           THEN /\ calls' = Append(calls, [key |-> key, localPath |-> localPath,
                                          got |-> FALSE, outcome |-> "skipped"])
                /\ Tally("skipped")
                /\ IF caller = "json"
                       THEN pc' = "json" /\ jsonIdx' = jsonIdx + 1
                            /\ UNCHANGED fileIdx
                       ELSE pc' = "files" /\ fileIdx' = fileIdx + 1
                            /\ UNCHANGED jsonIdx
                /\ UNCHANGED getRequests
           ELSE /\ calls' = Append(calls, [key |-> key, localPath |-> localPath,
                                          got |-> TRUE, outcome |-> "pending"])
                /\ getRequests' = getRequests + 1
                /\ pc' = "getObject"
                /\ UNCHANGED <<totalDownloaded, totalSkipped, totalFailed,
                               jsonIdx, fileIdx>>
    /\ UNCHANGED <<second, store, fs, listVars, mainIdx, subFolders, subIdx,
                   targetIdx, actualFiles, callVars, totalFolders,
                   totalRecordFolders, listRequests, faults, listFailed, first>>

\* Lines 100-106: the GetObject request rejects, or it resolves and the
\* directory of localPath is made.
GetObject ==
    /\ pc = "getObject"
    /\ LET dir == Dirname(localPath)
       IN  \/ /\ Fault
              /\ Return("false")
              /\ UNCHANGED <<fs, getRequests, fsAtCall>>
           \/ /\ ~ExistsSync(dir) /\ MkdirThrows(dir)
              /\ Return("false")
              /\ UNCHANGED <<fs, getRequests, fsAtCall, faults>>
           \/ /\ ExistsSync(dir) \/ ~MkdirThrows(dir)
              /\ fs' = IF ExistsSync(dir) THEN fs ELSE Mkdir(fs, dir)
              /\ pc' = "pipeline"
              /\ UNCHANGED <<second, store, listVars, loopVars, callVars,
                             counters, calls, listRequests, getRequests,
                             fsAtCall, faults, listFailed, first>>

\* Line 109: the body is piped into a write stream of localPath.
Pipeline ==
    /\ pc = "pipeline"
    /\ \/ /\ OpenThrows(localPath)
          /\ Return("false")
          /\ UNCHANGED <<fs, getRequests, fsAtCall, faults>>
       \/ /\ ~OpenThrows(localPath)
          /\ fs' = WriteFile(fs, localPath, key, TRUE)
          /\ Return("true")
          /\ UNCHANGED <<getRequests, fsAtCall, faults>>
       \/ /\ ~OpenThrows(localPath)
          /\ Fault
          /\ \/ fs' = WriteFile(fs, localPath, key, FALSE)
             \/ fs' = fs
          /\ Return("false")
          /\ UNCHANGED <<getRequests, fsAtCall>>

(***************************************************************************)
(* downloadFromS3 (lines 121-241).                                         *)
(***************************************************************************)
\* Line 134.
ScanPrefix(mainFolder) == S3_BASE_PREFIX \o mainFolder \o <<"/">>

\* A variant of line 193 that keeps every listed key.
ActualFilesUnfiltered(list) == list

\* Line 193: the folder entries are filtered out.
ActualFiles(list) == SelectSeq(list, LAMBDA k : ~EndsWithSlash(k))

\* The head of the loop of line 133: list the subfolders of the next main
\* folder, or print the statistics and end (lines 229-241).
MainFolder ==
    /\ pc = "main"
    /\ IF mainIdx <= Len(MAIN_FOLDERS)
           THEN LET scanPrefix == ScanPrefix(MAIN_FOLDERS[mainIdx])
                IN  /\ Answer(scanPrefix, FolderItems(scanPrefix))
                    /\ prefix' = scanPrefix
                    /\ continuationToken' = Null
                    /\ folders' = <<>>
                    /\ requested' = 0
                    /\ pc' = "listFolders"
           ELSE /\ pc' = "done"
                /\ UNCHANGED <<store, prefix, continuationToken, folders,
                               requested>>
    /\ UNCHANGED <<second, fs, files, loopVars, callVars, counters, history>>

\* Lines 144-147: a main folder without subfolders is passed over.
AfterListFolders ==
    /\ pc = "afterListFolders"
    /\ IF Len(subFolders) = 0
           THEN mainIdx' = mainIdx + 1 /\ pc' = "main" /\ UNCHANGED subIdx
           ELSE subIdx' = 1 /\ pc' = "sub" /\ UNCHANGED mainIdx
    /\ UNCHANGED <<second, store, fs, listVars, subFolders, jsonIdx, targetIdx,
                   actualFiles, fileIdx, callVars, counters, history>>

\* The head of the loop of line 157; after the last subfolder, line 223.
SubFolder ==
    /\ pc = "sub"
    /\ IF subIdx <= Len(subFolders)
           THEN /\ totalRecordFolders' = totalRecordFolders + 1
                /\ jsonIdx' = 1
                /\ pc' = "json"
                /\ UNCHANGED <<mainIdx, totalFolders>>
           ELSE /\ totalFolders' = totalFolders + 1
                /\ mainIdx' = mainIdx + 1
                /\ pc' = "main"
                /\ UNCHANGED <<jsonIdx, totalRecordFolders>>
    /\ UNCHANGED <<second, store, fs, listVars, subFolders, subIdx, targetIdx,
                   actualFiles, fileIdx, callVars, totalDownloaded, totalFailed,
                   totalSkipped, history>>

\* The head of the loop of line 167.
JsonFile ==
    /\ pc = "json"
    /\ IF jsonIdx <= Len(JSON_FILES_TO_DOWNLOAD)
           THEN LET fileKey == subFolders[subIdx] \o JSON_FILES_TO_DOWNLOAD[jsonIdx]
                IN  /\ key' = fileKey
                    /\ localPath' = LocalPath(fileKey)
                    /\ caller' = "json"
                    /\ pc' = "downloadFile"
                    /\ UNCHANGED targetIdx
           ELSE /\ targetIdx' = 1
                /\ pc' = "target"
                /\ UNCHANGED callVars
    /\ UNCHANGED <<second, store, fs, listVars, mainIdx, subFolders, subIdx,
                   jsonIdx, actualFiles, fileIdx, counters, history>>

\* The head of the loop of line 185: list the files of the next folder.
TargetFolder ==
    /\ pc = "target"
    /\ IF targetIdx <= Len(FOLDERS_TO_DOWNLOAD)
           THEN LET fullPrefix == subFolders[subIdx] \o FOLDERS_TO_DOWNLOAD[targetIdx]
                IN  /\ Answer(fullPrefix, FileItems(fullPrefix))
                    /\ prefix' = fullPrefix
                    /\ continuationToken' = Null
                    /\ files' = <<>>
                    /\ requested' = 0
                    /\ pc' = "listAllFiles"
                    /\ UNCHANGED subIdx
           ELSE /\ subIdx' = subIdx + 1
                /\ pc' = "sub"
                /\ UNCHANGED <<store, prefix, continuationToken, files, requested>>
    /\ UNCHANGED <<second, fs, folders, mainIdx, subFolders, jsonIdx, targetIdx,
                   actualFiles, fileIdx, callVars, counters, history>>

\* Lines 193-198.
AfterListAllFiles ==
    /\ pc = "afterListAllFiles"
    /\ actualFiles' = ActualFiles(files)
    /\ IF Len(actualFiles') = 0
           THEN targetIdx' = targetIdx + 1 /\ pc' = "target" /\ UNCHANGED fileIdx
           ELSE fileIdx' = 1 /\ pc' = "files" /\ UNCHANGED targetIdx
    /\ UNCHANGED <<second, store, fs, listVars, mainIdx, subFolders, subIdx,
                   jsonIdx, callVars, counters, history>>

\* The head of the loop of line 203.
File ==
    /\ pc = "files"
    /\ IF fileIdx <= Len(actualFiles)
           THEN LET fileKey == actualFiles[fileIdx]
                IN  /\ key' = fileKey
                    /\ localPath' = LocalPath(fileKey)
                    /\ caller' = "files"
                    /\ pc' = "downloadFile"
                    /\ UNCHANGED targetIdx
           ELSE /\ targetIdx' = targetIdx + 1
                /\ pc' = "target"
                /\ UNCHANGED callVars
    /\ UNCHANGED <<second, store, fs, listVars, mainIdx, subFolders, subIdx,
                   jsonIdx, actualFiles, fileIdx, counters, history>>

(***************************************************************************)
(* The script is run, and then run once more over the same local root      *)
(* against the same store.                                                 *)
(***************************************************************************)
NoFs == <<>>

\* What is known of the first run before it has ended.
NoRun == [ended |-> FALSE, items |-> 0, failed |-> 0, fs |-> NoFs]

\* The local root before the first run: nothing, or a file where the
\* download directory is to be.
InitialFs == {NoFs, [p \in {Normalize(DOWNLOAD_DIR)} |-> FileEntry(<<>>, TRUE)]}

\* The start of downloadFromS3 (lines 121-130), with nothing requested yet.
Start ==
    /\ pc = "main"
    /\ mainIdx = 1
    /\ prefix = <<>>
    /\ continuationToken = Null
    /\ folders = <<>>
    /\ files = <<>>
    /\ requested = 0
    /\ subFolders = <<>>
    /\ subIdx = 1
    /\ jsonIdx = 1
    /\ targetIdx = 1
    /\ actualFiles = <<>>
    /\ fileIdx = 1
    /\ key = <<>>
    /\ localPath = <<>>
    /\ caller = "json"
    /\ totalDownloaded = 0
    /\ totalFailed = 0
    /\ totalFolders = 0
    /\ totalRecordFolders = 0
    /\ totalSkipped = 0
    /\ calls = <<>>
    /\ listRequests = 0
    /\ getRequests = 0
    /\ faults = 0
    /\ listFailed = FALSE

Init ==
    /\ Start
    /\ second = FALSE
    /\ store = <<>>
    /\ fs \in InitialFs
    /\ fsAtCall = fs
    /\ first = NoRun

Ended == pc \in {"done", "crashed"}

Rerun ==
    /\ pc = "done"
    /\ ~second
    /\ second' = TRUE
    /\ first' = [ended |-> TRUE, items |-> Len(calls), failed |-> totalFailed,
                 fs |-> fs]
    /\ pc' = "main"
    /\ mainIdx' = 1
    /\ prefix' = <<>>
    /\ continuationToken' = Null
    /\ folders' = <<>>
    /\ files' = <<>>
    /\ requested' = 0
    /\ subFolders' = <<>>
    /\ subIdx' = 1
    /\ jsonIdx' = 1
    /\ targetIdx' = 1
    /\ actualFiles' = <<>>
    /\ fileIdx' = 1
    /\ key' = <<>>
    /\ localPath' = <<>>
    /\ caller' = "json"
    /\ totalDownloaded' = 0
    /\ totalFailed' = 0
    /\ totalFolders' = 0
    /\ totalRecordFolders' = 0
    /\ totalSkipped' = 0
    /\ calls' = <<>>
    /\ listRequests' = 0
    /\ getRequests' = 0
    /\ listFailed' = FALSE
    /\ fsAtCall' = fs
    /\ UNCHANGED <<store, fs, faults>>

Step ==
    \/ MainFolder
    \/ ListFoldersPage
    \/ AfterListFolders
    \/ SubFolder
    \/ JsonFile
    \/ TargetFolder
    \/ ListAllFilesPage
    \/ AfterListAllFiles
    \/ File
    \/ DownloadFile
    \/ GetObject
    \/ Pipeline

Next == Step \/ Rerun

\* One run of the script.
Spec == Init /\ [][Step]_vars

\* One run and, once it has completed, a second one.
SpecRerun == Init /\ [][Next]_vars

\* Every await of the run settles: the single thread of control goes on.
FairSpec == Spec /\ WF_vars(Step)

(***************************************************************************)
(* One listing call on its own, against any answer of the store: up to     *)
(* MaxPages pages of up to MaxPageLen items each, in any order, an item on *)
(* as many pages as the store likes.                                       *)
(***************************************************************************)
Pages(items) == SeqsUpTo(SeqsUpTo(items, MaxPageLen), MaxPages) \ {<<>>}

ListedFolder == ScanPrefix(MAIN_FOLDERS[1])

ListedFiles == FolderItems(ListedFolder)[1] \o FOLDERS_TO_DOWNLOAD[1]

InitList ==
    /\ \/ /\ pc = "listFolders"
          /\ prefix = ListedFolder
          /\ \E pages \in Pages({FolderItems(ListedFolder)[n] : n \in 1..2}) :
                 store = [q \in {ListedFolder} |-> pages]
       \/ /\ pc = "listAllFiles"
          /\ prefix = ListedFiles
          /\ \E pages \in Pages({FileItems(ListedFiles)[n] : n \in {1, 3}}) :
                 store = [q \in {ListedFiles} |-> pages]
    /\ mainIdx = 1
    /\ continuationToken = Null
    /\ folders = <<>>
    /\ files = <<>>
    /\ requested = 0
    /\ subFolders = <<>>
    /\ subIdx = 1
    /\ jsonIdx = 1
    /\ targetIdx = 1
    /\ actualFiles = <<>>
    /\ fileIdx = 1
    /\ key = <<>>
    /\ localPath = <<>>
    /\ caller = "json"
    /\ totalDownloaded = 0
    /\ totalFailed = 0
    /\ totalFolders = 0
    /\ totalRecordFolders = 0
    /\ totalSkipped = 0
    /\ calls = <<>>
    /\ listRequests = 0
    /\ getRequests = 0
    /\ faults = 0
    /\ listFailed = FALSE
    /\ second = FALSE
    /\ fs = NoFs
    /\ fsAtCall = NoFs
    /\ first = NoRun

NextList == ListFoldersPage \/ ListAllFilesPage

SpecList == InitList /\ [][NextList]_vars

(***************************************************************************)
(* What the properties below are stated with: the store's answers as they  *)
(* are, and the plan of a run computed from them alone.                    *)
(***************************************************************************)
Range(seq) == {seq[n] : n \in 1..Len(seq)}

\* Everything the store answers to a listing of p, page after page.
Answered(p) == IF p \in DOMAIN store THEN Concat(store[p]) ELSE <<>>

\* seq without the later occurrences of its elements.
RECURSIVE Distinct(_)
Distinct(seq) ==
    IF Len(seq) = 0 THEN <<>>
    ELSE LET front == Distinct(SubSeq(seq, 1, Len(seq) - 1))
             last == seq[Len(seq)]
         IN  IF last \in Range(front) THEN front ELSE Append(front, last)

IsMarker(k) == Len(k) > 0 /\ k[Len(k)] = "/"

NonMarkers(seq) == SelectSeq(seq, LAMBDA k : ~IsMarker(k))

PlanOfSubfolder(sub) ==
    [n \in 1..Len(JSON_FILES_TO_DOWNLOAD) |-> sub \o JSON_FILES_TO_DOWNLOAD[n]]
    \o Concat([t \in 1..Len(FOLDERS_TO_DOWNLOAD) |->
                  NonMarkers(Answered(sub \o FOLDERS_TO_DOWNLOAD[t]))])

PlanOfTarget(m) ==
    LET subs == Distinct(Answered(ScanPrefix(MAIN_FOLDERS[m])))
    IN  Concat([n \in 1..Len(subs) |-> PlanOfSubfolder(subs[n])])

\* The keys a run is to pass to downloadFile, in order.
Plan == Concat([m \in 1..Len(MAIN_FOLDERS) |-> PlanOfTarget(m)])

CallKeys == [n \in 1..Len(calls) |-> calls[n].key]

Count(outcome) == Cardinality({n \in 1..Len(calls) : calls[n].outcome = outcome})

IsPrefix(a, b) == Len(a) <= Len(b) /\ SubSeq(b, 1, Len(a)) = a

LastCall == calls[Len(calls)]

SubfoldersOf(m) == Range(Answered(ScanPrefix(MAIN_FOLDERS[m])))

RECURSIVE SubfoldersUpTo(_)
SubfoldersUpTo(m) ==
    IF m = 0 THEN 0 ELSE Cardinality(SubfoldersOf(m)) + SubfoldersUpTo(m - 1)

(***************************************************************************)
(* C1.  Failure isolation: whichever downloads fail, the calls of          *)
(* downloadFile made so far are the first keys of the plan, each once and  *)
(* in plan order; each counter is the number of calls that ended with its  *)
(* outcome; and a run whose listings all succeed ends having called        *)
(* downloadFile for the whole plan, the three counters adding up to the    *)
(* number of planned items.                                                *)
(***************************************************************************)
FailureIsolation ==
    /\ totalDownloaded = Count("true")
    /\ totalSkipped = Count("skipped")
    /\ totalFailed = Count("false")
    /\ Count("pending") = IF pc \in {"getObject", "pipeline"} THEN 1 ELSE 0
    /\ IsPrefix(CallKeys, Plan)
    /\ pc = "done" =>
          /\ CallKeys = Plan
          /\ totalDownloaded + totalSkipped + totalFailed = Len(Plan)

\* A completed run in which a download failed between two that succeeded.
FailureIsolationWitness ==
    /\ pc = "done"
    /\ \E l, m, n \in 1..Len(calls) :
          /\ l < m /\ m < n
          /\ calls[l].outcome = "true"
          /\ calls[m].outcome = "false"
          /\ calls[n].outcome = "true"

PaginationComplete ==
    /\ pc = "afterListAllFiles" =>
          /\ files = Concat(store[prefix])
          /\ requested = Len(store[prefix])
    /\ pc = "afterListFolders" =>
          /\ Range(subFolders) = Range(Concat(store[prefix]))
          /\ Cardinality(Range(subFolders)) = Len(subFolders)
          /\ requested = Len(store[prefix])
    /\ pc \in {"listFolders", "listAllFiles"} => requested < Len(store[prefix])

\* listFolders has returned from an answer with a prefix on two pages.
PaginationWitness ==
    /\ pc = "afterListFolders"
    /\ Len(store[prefix]) = 2
    /\ Range(store[prefix][1]) \cap Range(store[prefix][2]) # {}
    /\ Len(subFolders) = 2

(***************************************************************************)
(* C4.  Skip leaves everything unchanged: a downloadFile call whose        *)
(* localPath existed when it began returns skipped, sends no GetObject     *)
(* request and leaves the filesystem as it was; and no entry that existed  *)
(* when a call began is removed or changed by it.                          *)
(***************************************************************************)
SkipLeavesUnchanged ==
    /\ \A p \in DOMAIN fsAtCall : p \in DOMAIN fs /\ fs[p] = fsAtCall[p]
    /\ getRequests = Cardinality({n \in 1..Len(calls) : calls[n].got})
    /\ (Len(calls) > 0 /\ LastCall.localPath \in DOMAIN fsAtCall) =>
          /\ LastCall.outcome = "skipped"
          /\ ~LastCall.got
          /\ fs = fsAtCall

\* A call was skipped over a file that an earlier download left truncated.
SkipWitness ==
    /\ Len(calls) > 0
    /\ LastCall.localPath \in DOMAIN fsAtCall
    /\ ~fsAtCall[LastCall.localPath].complete
    /\ LastCall.outcome = "skipped"

(***************************************************************************)
(* C5.  Run termination and exit status: the run ends by the nonzero exit  *)
(* exactly when a list request was rejected; the rejection ends the run at *)
(* once, with nothing of the listing handed on and no request, download or *)
(* write after it; and every run ends, by the statistics and a zero exit   *)
(* when no list request was rejected, whatever the number of failed items. *)
(***************************************************************************)
ExitStatus ==
    /\ [](pc = "crashed" <=> listFailed)
    /\ [][(listFailed' /\ ~listFailed) =>
             /\ pc' = "crashed"
             /\ UNCHANGED <<fs, calls, getRequests, subFolders, actualFiles,
                            counters>>]_vars
    /\ [][pc = "crashed" =>
             UNCHANGED <<fs, calls, listRequests, getRequests, counters>>]_vars
    /\ <>Ended

\* A run reached the statistics with a failed item.
ExitWitness == pc = "done" /\ totalFailed > 0 /\ totalDownloaded > 0

(***************************************************************************)
(* C6.  Folder-marker filtering: no key that ends in "/" is passed to      *)
(* downloadFile; the files loop passes the other keys of the listing, all  *)
(* of them and in order; and a listing of markers only leaves filesystem   *)
(* and counters as they were.                                              *)
(***************************************************************************)
MarkersFiltered ==
    /\ [](\A n \in 1..Len(calls) : ~IsMarker(calls[n].key))
    /\ [](pc = "files" =>
            LET listedKeys == NonMarkers(Concat(store[prefix]))
            IN  /\ actualFiles = listedKeys
                /\ fileIdx - 1 <= Len(calls)
                /\ SubSeq(CallKeys, Len(calls) - fileIdx + 2, Len(calls))
                       = SubSeq(listedKeys, 1, fileIdx - 1))
    /\ [][(pc = "files" /\ pc' = "target") =>
             fileIdx = Len(NonMarkers(Concat(store[prefix]))) + 1]_vars
    /\ [][(pc = "afterListAllFiles" /\ pc' = "target") =>
             /\ NonMarkers(Concat(store[prefix])) = <<>>
             /\ UNCHANGED <<fs, calls, counters>>]_vars

\* The files loop is through a listing that held a marker and another key.
MarkersWitness ==
    /\ pc = "files"
    /\ fileIdx = Len(actualFiles) + 1
    /\ Len(actualFiles) >= 1
    /\ \E k \in Range(Concat(store[prefix])) : IsMarker(k)

(***************************************************************************)
(* C7, as stated.  Path mapping is injective: two calls of downloadFile    *)
(* for different keys have different local paths.                          *)
(***************************************************************************)
PathsInjective ==
    \A m, n \in 1..Len(calls) :
        calls[m].key # calls[n].key => calls[m].localPath # calls[n].localPath

(***************************************************************************)
(* C8, as stated.  No partial-item state on failure: after a call that     *)
(* failed, nothing is at its localPath unless something was there when the *)
(* call began.                                                             *)
(***************************************************************************)
NoPartialState ==
    (/\ Len(calls) > 0
     /\ LastCall.outcome = "false"
     /\ LastCall.localPath \notin DOMAIN fsAtCall)
        => LastCall.localPath \notin DOMAIN fs

(***************************************************************************)
(* C9.  Folder counters: totalFolders is the number of finished targets    *)
(* whose listing held a subfolder, so at most the number of finished       *)
(* targets; totalRecordFolders is at most the number of distinct           *)
(* subfolders listed so far and, at the end of a completed run, the number *)
(* listed over all targets; a target without subfolders adds nothing and   *)
(* causes no download; and neither counter ever decreases.                 *)
(***************************************************************************)
FolderCounters ==
    /\ [](/\ totalFolders
               = Cardinality({m \in 1..(mainIdx - 1) : SubfoldersOf(m) # {}})
          /\ totalFolders <= mainIdx - 1
          /\ totalRecordFolders
               <= SubfoldersUpTo(IF mainIdx <= Len(MAIN_FOLDERS)
                                     THEN mainIdx ELSE Len(MAIN_FOLDERS))
          /\ pc = "done" =>
                /\ mainIdx - 1 = Len(MAIN_FOLDERS)
                /\ totalRecordFolders = SubfoldersUpTo(Len(MAIN_FOLDERS)))
    /\ [][/\ totalFolders' >= totalFolders
          /\ totalRecordFolders' >= totalRecordFolders]_vars
    /\ [][(pc = "afterListFolders" /\ SubfoldersOf(mainIdx) = {}) =>
             /\ pc' = "main"
             /\ mainIdx' = mainIdx + 1
             /\ UNCHANGED <<fs, calls, counters>>]_vars

\* A completed run: a target without subfolders, and one whose listing held
\* a subfolder twice.
FolderCountersWitness ==
    /\ pc = "done"
    /\ \E m \in 1..Len(MAIN_FOLDERS) : SubfoldersOf(m) = {}
    /\ \E m \in 1..Len(MAIN_FOLDERS) :
          Len(Answered(ScanPrefix(MAIN_FOLDERS[m]))) > Cardinality(SubfoldersOf(m))
    /\ totalRecordFolders >= 1

(***************************************************************************)
(* C10.  Duplicates are tolerated: once a call of downloadFile for a key   *)
(* has returned true, every later call of the run for that key returns     *)
(* skipped without a GetObject request, so that at most one returns true.  *)
(***************************************************************************)
DuplicatesTolerated ==
    \A m, n \in 1..Len(calls) :
        (m < n /\ calls[m].key = calls[n].key /\ calls[m].outcome = "true") =>
            /\ calls[n].outcome = "skipped"
            /\ ~calls[n].got

\* A key was downloaded and then, planned again, skipped.
DuplicatesWitness ==
    \E m, n \in 1..Len(calls) :
        /\ m < n
        /\ calls[m].key = calls[n].key
        /\ calls[m].outcome = "true"
        /\ calls[n].outcome = "skipped"

=============================================================================
